---- MODULE Spec2Model ----
(***************************************************************************)
(* A model of the S3 upload back end: the monolithic server (server.js,   *)
(* src/unnamed/part_002) and the router / controller / service variant    *)
(* (src/unnamed/part_001, src/controllers, src/services/s3FileService.js).*)
(*                                                                         *)
(* Each request runs in a slot.  A handler is cut at its await points:    *)
(* one action runs the synchronous code up to the next awaited call, the  *)
(* next action is the settlement of that call (success or failure, chosen *)
(* by the storage service) together with the code that follows it.        *)
(* Strings that the code inspects or builds (MIME types, file names,      *)
(* object keys, URLs) are sequences of one-character strings.             *)
(***************************************************************************)
EXTENDS Integers, Sequences, FiniteSets, TLC

VARIABLES now, pc, req, loc, calls, out, store

vars == <<now, pc, req, loc, calls, out, store>>

----------------------------------------------------------------------------
(* Bounds of the model *)

\* number of request slots (requests in flight at once)
MaxSlots == 2
\* the clock Date.now() reads runs from StartTime to MaxTime (milliseconds)
StartTime == 9
MaxTime == 10
\* longest original file name, in characters
MaxNameLen == 3
\* most objects in one listing response
MaxListed == 3
\* LastModified runs over 1..MaxStamp
MaxStamp == 2
\* listRecentFiles is called with the limits 0..MaxLimit (and by getFiles with 5)
MaxLimit == 2

Slots == 1..MaxSlots

----------------------------------------------------------------------------
(* Program constants *)

\* multer limits.fileSize: 1024 * 1024 * 200
FileSizeLimit == 209715200

\* listRecentFiles(5) in getFiles
FilesLimit == 5

\* .slice(0, 5) in GET /files of server.js
MonoSliceEnd == 5

\* MaxKeys of the listing in listRecentFiles and GET /files
ListMaxKeys == 200

\* MaxKeys of the listing in the connectivity check
DebugMaxKeys == 5

\* expiresIn of getSignedUrl: 300 in the service, 60 * 5 in server.js
ExpiresIn == 300

\* const PREFIX = 'uploads/'
PREFIX == <<"u", "p", "l", "o", "a", "d", "s", "/">>

\* the literal the X-Client-Source header is compared with
TrustedSource == "stickers-recorder"

\* upload.single('video')
UploadField == "video"

\* 'video/', the prefix mimetype.startsWith tests
VideoSlash == <<"v", "i", "d", "e", "o", "/">>

\* 'mp4', the substring ct.includes tests
Mp4 == <<"m", "p", "4">>

\* the default file names
VideoMp4 == <<"v", "i", "d", "e", "o", ".", "m", "p", "4">>
VideoWebm == <<"v", "i", "d", "e", "o", ".", "w", "e", "b", "m">>

\* process.env.S3_BUCKET and process.env.AWS_REGION, fixed at start-up
BUCKET == <<"b", "k", "t">>
REGION == <<"e", "u">>

----------------------------------------------------------------------------
(* JavaScript string operations *)

\* String.prototype.startsWith
StartsWith(s, p) ==
    /\ Len(p) <= Len(s)
    /\ SubSeq(s, 1, Len(p)) = p

\* String.prototype.includes
Includes(s, p) ==
    \E i \in 1..(Len(s) - Len(p) + 1) : SubSeq(s, i, i + Len(p) - 1) = p

\* the characters the regular expression class \s matches (of the model's alphabet)
IsWhitespace(c) == c \in {" ", "\t"}

\* the last index of the greedy match of \s+ that starts at index i
RunEnd(s, i) ==
    CHOOSE j \in i..Len(s) :
        /\ \A k \in i..j : IsWhitespace(s[k])
        /\ (j = Len(s) \/ ~IsWhitespace(s[j + 1]))

RECURSIVE ReplaceFrom(_, _)
\* s.replace(/\s+/g, '_') from index i on: the scan is left to right, each
\* match is greedy and the scan resumes after the match
ReplaceFrom(s, i) ==
    IF i > Len(s) THEN <<>>
    ELSE IF IsWhitespace(s[i])
         THEN <<"_">> \o ReplaceFrom(s, RunEnd(s, i) + 1)
         ELSE <<s[i]>> \o ReplaceFrom(s, i + 1)

\* a plausible slip: /\s/g, one underscore for each whitespace character
SanitizeEachChar(original) ==
    [i \in 1..Len(original) |->
        IF IsWhitespace(original[i]) THEN "_" ELSE original[i]]

\* original.replace(/\s+/g, '_')
Sanitize(original) == ReplaceFrom(original, 1)

DigitChars == <<"0", "1", "2", "3", "4", "5", "6", "7", "8", "9">>

RECURSIVE NumberToString(_)
\* the decimal text a template literal gives a non-negative integer
NumberToString(n) ==
    IF n < 10 THEN <<DigitChars[n + 1]>>
    ELSE NumberToString(n \div 10) \o <<DigitChars[(n % 10) + 1]>>

\* the characters encodeURIComponent leaves alone
Unreserved ==
    {"a", "b", "d", "e", "i", "k", "l", "m", "o", "p", "s", "t", "u", "v", "w",
     "0", "1", "2", "3", "4", "5", "6", "7", "8", "9",
     "-", "_", ".", "!", "~", "*", "'", "(", ")"}

\* encodeURIComponent of one character: %XX of its UTF-8 byte
EncodeChar(c) ==
    IF c \in Unreserved THEN <<c>>
    ELSE CASE c = "/"  -> <<"%", "2", "F">>
           [] c = " "  -> <<"%", "2", "0">>
           [] c = "\t" -> <<"%", "0", "9">>

RECURSIVE EncodeFrom(_, _)
EncodeFrom(s, i) ==
    IF i > Len(s) THEN <<>> ELSE EncodeChar(s[i]) \o EncodeFrom(s, i + 1)

\* encodeURIComponent
EncodeURIComponent(s) == EncodeFrom(s, 1)

\* `https://${BUCKET}.s3.${process.env.AWS_REGION}.amazonaws.com/${encodeURIComponent(key)}`
PublicUrl(key) ==
    <<"h", "t", "t", "p", "s", ":", "/", "/">> \o BUCKET
        \o <<".", "s", "3", ".">> \o REGION
        \o <<".", "a", "m", "a", "z", "o", "n", "a", "w", "s", ".", "c", "o", "m", "/">>
        \o EncodeURIComponent(key)

----------------------------------------------------------------------------
(* Requests *)

\* the characters of file names
NameChars == {"a", "_", " ", "\t"}

RECURSIVE SeqsUpTo(_, _)
\* the sequences over S of length at most n
SeqsUpTo(S, n) ==
    IF n = 0 THEN {<<>>}
    ELSE LET shorter == SeqsUpTo(S, n - 1)
         IN  shorter \cup {Append(s, c) : s \in {t \in shorter : Len(t) = n - 1}, c \in S}

\* original names a multipart part can carry ('' when the part names none)
FileNames == SeqsUpTo(NameChars, MaxNameLen)

VideoMp4Type == <<"v", "i", "d", "e", "o", "/", "m", "p", "4">>

\* declared content types of the part
MimeTypes ==
    { VideoMp4Type,
      <<"v", "i", "d", "e", "o", "/", "w", "e", "b", "m">>,
      <<"v", "i", "d", "e", "o">>,
      <<"t", "e", "x", "t", "/", "p", "l", "a", "i", "n">>,
      <<"a", "u", "d", "i", "o", "/", "m", "p", "4">> }

\* what req.get('X-Client-Source') can give; "" stands for undefined (no header)
SourceValues == {"", "stickers-recorder", "Stickers-Recorder", "web"}

\* the form fields a file can arrive in
FieldNames == {"video", "file"}

\* file sizes in bytes: empty, the largest multer lets through, one byte more
FileSizes == {0, FileSizeLimit, FileSizeLimit + 1}

\* the errors the storage client rejects with
StorageErrors ==
    { [name |-> "AccessDenied", message |-> "Access Denied", httpStatus |-> 403],
      [name |-> "TimeoutError", message |-> "socket hang up", httpStatus |-> 0] }

ErrorNames == {e.name : e \in StorageErrors}

ErrorNamed(name) == CHOOSE e \in StorageErrors : e.name = name

\* a call that has settled with an error
Failed(call) == call.result \notin {"pending", "ok"}

\* a request that carries no file part
NoFile ==
    [present |-> FALSE, fieldname |-> "", mimetype |-> <<>>,
     originalname |-> <<>>, size |-> 0]

Files ==
    [present : {TRUE}, fieldname : FieldNames, mimetype : MimeTypes,
     originalname : FileNames, size : FileSizes]

\* POST /upload of the monolithic server ("mono") and of the router ("split")
UploadRequests ==
    [route : {"upload"}, variant : {"mono", "split"}, source : SourceValues,
     file : Files \cup {NoFile}, limit : {0}]

NoReq ==
    [route |-> "none", variant |-> "none", source |-> "", file |-> NoFile, limit |-> 0]

\* the key of the i-th object of a listing: keys of one listing are distinct
\* and lie under the prefix
ListedKey(i) == PREFIX \o NumberToString(i)

\* what the storage service can report for the i-th object; <<>> stands for
\* an entry without Key, Size 0 for a folder marker
ObjectsAt(i) ==
    [Key : {<<>>, ListedKey(i)}, Size : {0, 7}, LastModified : 1..MaxStamp]

RECURSIVE ListingsOfLen(_)
ListingsOfLen(n) ==
    IF n = 0 THEN {<<>>}
    ELSE {Append(s, o) : s \in ListingsOfLen(n - 1), o \in ObjectsAt(n)}

\* listings too long for the handlers' limit: one real object more than
\* FilesLimit, in every order of their LastModified values
LongListings ==
    {[i \in 1..(FilesLimit + 1) |->
        [Key |-> ListedKey(i), Size |-> 7, LastModified |-> stamp[i]]] :
            stamp \in [1..(FilesLimit + 1) -> 1..MaxStamp]}

\* the Contents arrays a ListObjectsV2 response can carry
Listings == UNION {ListingsOfLen(n) : n \in 0..MaxListed} \cup LongListings

\* the locals of a handler: the upload's key and the time it read; the limit,
\* data.Contents and recent of listRecentFiles; the steps of the report
NoLoc ==
    [key |-> <<>>, t |-> 0, limit |-> 0, contents |-> <<>>, recent |-> <<>>,
     steps |-> <<>>]

----------------------------------------------------------------------------
(* Initial state: the server listens, no request has arrived *)

Init ==
    /\ now = StartTime
    /\ pc = [r \in Slots |-> "idle"]
    /\ req = [r \in Slots |-> NoReq]
    /\ loc = [r \in Slots |-> NoLoc]
    /\ calls = [r \in Slots |-> <<>>]
    /\ out = [r \in Slots |-> <<>>]
    /\ store = <<>>

\* the millisecond clock advances
Tick ==
    /\ now < MaxTime
    /\ now' = now + 1
    /\ UNCHANGED <<pc, req, loc, calls, out, store>>

\* res.status(status).json(body): one more response on slot r
Send(r, status, body) ==
    out' = [out EXCEPT ![r] =
                Append(@, [kind |-> "response", status |-> status, body |-> body])]

\* the calls of the storage client made for slot r so far, with one more
Invoked(r, call) == Append(calls[r], call)

\* a call of the storage client made for slot r; it is pending until it settles
Invoke(r, call) == calls' = [calls EXCEPT ![r] = Invoked(r, call)]

\* the log of calls with the results of the pending ones filled in:
\* result[i] is "ok" or the name of the error call i rejects with (calls
\* already settled keep their result)
Settled(log, result) ==
    [i \in 1..Len(log) |->
        IF log[i].result = "pending" THEN [log[i] EXCEPT !.result = result[i]]
        ELSE log[i]]

\* every pending call of slot r settles with the same result
SettleAll(r, result) ==
    calls' = [calls EXCEPT ![r] = Settled(@, [i \in 1..Len(@) |-> result])]

----------------------------------------------------------------------------
(* POST /upload *)

\* a POST /upload request arrives on slot r
UploadArrive(r) ==
    /\ pc[r] = "idle"
    /\ \E q \in UploadRequests :
        req' = [req EXCEPT ![r] = q]
    /\ pc' = [pc EXCEPT ![r] = "multer"]
    /\ UNCHANGED <<now, loc, calls, out, store>>

\* upload.single('video') with limits.fileSize: a file in another field
\* (LIMIT_UNEXPECTED_FILE) or larger than the limit (LIMIT_FILE_SIZE) ends in
\* next(err); no error-handling middleware is registered, so the framework's
\* final handler answers 500 and the route handler does not run.  Otherwise
\* req.file is the file (undefined without one) and the handler runs.
MulterSingle(r) ==
    /\ pc[r] = "multer"
    /\ LET f == req[r].file
       IN  IF f.present /\ (f.fieldname # UploadField \/ f.size > FileSizeLimit)
           THEN /\ Send(r, 500, [by |-> "finalhandler", error |-> "MulterError"])
                /\ pc' = [pc EXCEPT ![r] = "done"]
           ELSE /\ pc' = [pc EXCEPT ![r] = "handler"]
                /\ UNCHANGED out
    /\ UNCHANGED <<now, req, loc, calls, store>>

\* server.js, step 4: original name or a default that follows the content type
MonoOriginal(file, ct) ==
    IF file.originalname # <<>> THEN file.originalname
    ELSE IF Includes(ct, Mp4) THEN VideoMp4 ELSE VideoWebm

\* uploadVideoToS3: file.originalname || 'video.mp4'
SplitOriginal(file) ==
    IF file.originalname # <<>> THEN file.originalname ELSE VideoMp4

\* a plausible slip: the key without the millisecond stamp
KeyWithoutStamp(t, sanitized) == PREFIX \o <<"-">> \o sanitized

\* `${PREFIX}${Date.now()}-${sanitized}`
MakeKey(t, sanitized) == PREFIX \o NumberToString(t) \o <<"-">> \o sanitized

\* mimetype.startsWith('video/')
IsVideo(ct) == StartsWith(ct, VideoSlash)

\* app.post('/upload') of server.js up to await uploader.done()
MonoUploadHandler(r) ==
    /\ pc[r] = "handler"
    /\ req[r].route = "upload" /\ req[r].variant = "mono"
    /\ LET clientSource == req[r].source
           file == req[r].file
           ct == file.mimetype
           key == MakeKey(now, Sanitize(MonoOriginal(file, ct)))
       IN  IF clientSource # TrustedSource
           THEN /\ Send(r, 400, [error |-> "Invalid upload source"])
                /\ pc' = [pc EXCEPT ![r] = "done"]
                /\ UNCHANGED <<loc, calls>>
           ELSE IF ~file.present
           THEN /\ Send(r, 400, [error |-> "No file uploaded (expected field \"video\")."])
                /\ pc' = [pc EXCEPT ![r] = "done"]
                /\ UNCHANGED <<loc, calls>>
           ELSE IF ~IsVideo(ct)
           THEN /\ Send(r, 400, [error |-> "Invalid content type"])
                /\ pc' = [pc EXCEPT ![r] = "done"]
                /\ UNCHANGED <<loc, calls>>
           ELSE /\ loc' = [loc EXCEPT ![r] = [@ EXCEPT !.key = key, !.t = now]]
                /\ Invoke(r, [op |-> "Upload", Key |-> key, ContentType |-> ct,
                              Size |-> file.size, result |-> "pending"])
                /\ pc' = [pc EXCEPT ![r] = "uploading"]
                /\ UNCHANGED out
    /\ UNCHANGED <<now, req, store>>

\* uploadVideo of uploadController.js with uploadVideoToS3 inlined, up to
\* await uploader.done()
SplitUploadVideo(r) ==
    /\ pc[r] = "handler"
    /\ req[r].route = "upload" /\ req[r].variant = "split"
    /\ LET source == req[r].source
           file == req[r].file
           ct == file.mimetype
           key == MakeKey(now, Sanitize(SplitOriginal(file)))
       IN  IF source # TrustedSource
           THEN /\ Send(r, 400, [error |-> "Invalid upload source"])
                /\ pc' = [pc EXCEPT ![r] = "done"]
                /\ UNCHANGED <<loc, calls>>
           ELSE IF ~file.present
           THEN /\ Send(r, 400, [error |-> "No file uploaded."])
                /\ pc' = [pc EXCEPT ![r] = "done"]
                /\ UNCHANGED <<loc, calls>>
           ELSE IF ~IsVideo(ct)
           THEN /\ Send(r, 400, [error |-> "File must be a video."])
                /\ pc' = [pc EXCEPT ![r] = "done"]
                /\ UNCHANGED <<loc, calls>>
           ELSE /\ loc' = [loc EXCEPT ![r] = [@ EXCEPT !.key = key, !.t = now]]
                /\ Invoke(r, [op |-> "Upload", Key |-> key, ContentType |-> ct,
                              Size |-> file.size, result |-> "pending"])
                /\ pc' = [pc EXCEPT ![r] = "uploading"]
                /\ UNCHANGED out
    /\ UNCHANGED <<now, req, store>>

\* the object the bucket holds under a key after a completed upload
Put(key, r) ==
    IF \E i \in 1..Len(store) : store[i].key = key
    THEN [i \in 1..Len(store) |->
            IF store[i].key = key THEN [key |-> key, by |-> r] ELSE store[i]]
    ELSE Append(store, [key |-> key, by |-> r])

\* the 200 body both variants send: message, key, url, contentType, size, source
UploadSuccessBody(r) ==
    [message |-> "Upload successful", key |-> loc[r].key,
     url |-> PublicUrl(loc[r].key), contentType |-> req[r].file.mimetype,
     size |-> req[r].file.size, source |-> req[r].source]

\* the 500 body of the catch block
UploadFailureBody(msg) ==
    [error |-> "Upload failed", details |-> msg]

\* a plausible slip: the catch block starts the upload again before it answers
UploadRetryOnFailure(r) ==
    /\ pc[r] = "uploading"
    /\ \/ /\ store' = Put(loc[r].key, r)
          /\ SettleAll(r, "ok")
          /\ Send(r, 200, UploadSuccessBody(r))
       \/ /\ \E e \in StorageErrors :
                /\ Send(r, 500, UploadFailureBody(e.message))
                /\ calls' = [calls EXCEPT ![r] =
                      Append(Settled(@, [i \in 1..Len(@) |-> e.name]), @[1])]
          /\ UNCHANGED store
    /\ pc' = [pc EXCEPT ![r] = "done"]
    /\ UNCHANGED <<now, req, loc>>

\* await uploader.done() settles: the object is stored and the handler sends
\* 200 with the result, or the promise rejects and the catch block sends 500
UploadSettle(r) ==
    /\ pc[r] = "uploading"
    /\ \/ /\ store' = Put(loc[r].key, r)
          /\ SettleAll(r, "ok")
          /\ Send(r, 200, UploadSuccessBody(r))
       \/ /\ \E e \in StorageErrors :
                /\ Send(r, 500, UploadFailureBody(e.message))
                /\ SettleAll(r, e.name)
          /\ UNCHANGED store
    /\ pc' = [pc EXCEPT ![r] = "done"]
    /\ UNCHANGED <<now, req, loc>>

----------------------------------------------------------------------------
(* GET /files and listRecentFiles *)

\* the value a function returns to its caller, or the error it throws
Returned(value) == [kind |-> "return", value |-> value]
Thrown(e) == [kind |-> "throw", error |-> e]

\* a plausible slip: the size test left out of the filter
KeyedObjects(contents) ==
    LET Keyed(o) == o.Key # <<>>
    IN  SelectSeq(contents, Keyed)

\* data.Contents.filter(o => o.Key && o.Size > 0)
RealObjects(contents) ==
    LET Real(o) == o.Key # <<>> /\ o.Size > 0
    IN  SelectSeq(contents, Real)

\* a plausible slip: the comparator the other way round (oldest first)
OldestFirst(a, b) == a.LastModified - b.LastModified

\* (a, b) => new Date(b.LastModified) - new Date(a.LastModified)
RecentFirst(a, b) == b.LastModified - a.LastModified

\* x put into a sorted list behind every element that does not sort after it
InsertSorted(sorted, x) ==
    LET NotAfter(e) == RecentFirst(e, x) <= 0
        After(e) == RecentFirst(e, x) > 0
    IN  SelectSeq(sorted, NotAfter) \o <<x>> \o SelectSeq(sorted, After)

RECURSIVE SortRecent(_)
\* Array.prototype.sort with the comparator: a stable sort
SortRecent(s) ==
    IF s = <<>> THEN <<>>
    ELSE InsertSorted(SortRecent(SubSeq(s, 1, Len(s) - 1)), s[Len(s)])

\* s.slice(0, end) for end >= 0
Slice(s, end) == SubSeq(s, 1, IF end < Len(s) THEN end ELSE Len(s))

\* filter, sort, slice: the objects that get a signed URL
Recent(contents, limit) == Slice(SortRecent(RealObjects(contents)), limit)

\* a plausible slip: URLs signed for every real object, before the slice
SignedBeforeSlice(contents, limit) == SortRecent(RealObjects(contents))

\* recent.map(...): the objects getSignedUrl is called for
Signed(contents, limit) == Recent(contents, limit)

\* the URL getSignedUrl resolves to: it grants the key for expiresIn seconds
SignedUrl(key, expiresIn) == [Key |-> key, expiresIn |-> expiresIn]

\* new GetObjectCommand({Bucket, Key}) handed to getSignedUrl(s3, getCmd, {expiresIn})
SignCall(item) ==
    [op |-> "getSignedUrl", Key |-> item.Key, expiresIn |-> ExpiresIn,
     result |-> "pending"]

\* the entries both variants build from the signed items
FileEntries(recent) ==
    [i \in 1..Len(recent) |->
        [key |-> recent[i].Key, size |-> recent[i].Size,
         lastModified |-> recent[i].LastModified,
         url |-> SignedUrl(recent[i].Key, ExpiresIn)]]

\* the listing call settled well, then one getSignedUrl call for each item
WithSignCalls(log, items) ==
    Settled(log, [i \in 1..Len(log) |-> "ok"])
        \o [i \in 1..Len(items) |-> SignCall(items[i])]

\* new ListObjectsV2Command({Bucket, Prefix, MaxKeys})
ListCall(maxKeys) ==
    [op |-> "ListObjectsV2", Prefix |-> PREFIX, MaxKeys |-> maxKeys,
     result |-> "pending"]

\* GET /files arrives: at server.js ("mono") or at the router ("split")
FilesArrive(r) ==
    /\ pc[r] = "idle"
    /\ \E v \in {"mono", "split"} :
        req' = [req EXCEPT ![r] = [NoReq EXCEPT !.route = "files", !.variant = v]]
    /\ pc' = [pc EXCEPT ![r] = "handler"]
    /\ UNCHANGED <<now, loc, calls, out, store>>

\* listRecentFiles(limit) is called with a limit of the caller's choice
ListRecentFilesCall(r) ==
    /\ pc[r] = "idle"
    /\ \E k \in 0..MaxLimit :
        req' = [req EXCEPT ![r] =
                   [NoReq EXCEPT !.route = "files", !.variant = "service", !.limit = k]]
    /\ pc' = [pc EXCEPT ![r] = "handler"]
    /\ UNCHANGED <<now, loc, calls, out, store>>

\* GET /files of server.js up to await s3.send(listCmd)
MonoFilesStart(r) ==
    /\ pc[r] = "handler"
    /\ req[r].route = "files" /\ req[r].variant = "mono"
    /\ Invoke(r, ListCall(ListMaxKeys))
    /\ loc' = [loc EXCEPT ![r] = [@ EXCEPT !.limit = MonoSliceEnd]]
    /\ pc' = [pc EXCEPT ![r] = "listing"]
    /\ UNCHANGED <<now, req, out, store>>

\* getFiles calling listRecentFiles(5), or a direct call, up to await s3.send(listCmd)
ListRecentFilesStart(r) ==
    /\ pc[r] = "handler"
    /\ req[r].route = "files" /\ req[r].variant \in {"split", "service"}
    /\ Invoke(r, ListCall(ListMaxKeys))
    /\ loc' = [loc EXCEPT ![r] =
                  [@ EXCEPT !.limit = IF req[r].variant = "split" THEN FilesLimit
                                      ELSE req[r].limit]]
    /\ pc' = [pc EXCEPT ![r] = "listing"]
    /\ UNCHANGED <<now, req, out, store>>

\* what GET /files of server.js answers when the listing call has settled
\* without entries to sign: the catch block's 500, or the "No files" message
MonoFilesFailure(e) ==
    [error |-> "Failed to list files", code |-> e.name, details |-> e.message,
     bucket |-> BUCKET, prefix |-> PREFIX]

MonoFilesBody(files) ==
    [count |-> Len(files), bucket |-> BUCKET, prefix |-> PREFIX, files |-> files]

\* getFiles: res.json({count, files}) for a returned list, the catch block's
\* 500 for a thrown error
GetFilesRespond(r, outcome) ==
    IF outcome.kind = "return"
    THEN Send(r, 200, [count |-> Len(outcome.value), files |-> outcome.value])
    ELSE Send(r, 500, [error |-> "Failed to list files",
                       details |-> outcome.error.message])

\* listRecentFiles ends with an outcome: getFiles turns it into a response,
\* a direct caller receives it
ListRecentFilesEnd(r, outcome) ==
    /\ IF req[r].variant = "split"
       THEN GetFilesRespond(r, outcome)
       ELSE out' = [out EXCEPT ![r] = Append(@, outcome)]
    /\ pc' = [pc EXCEPT ![r] = "done"]

\* a plausible slip: no guard for a response without Contents, so that
\* data.Contents.filter throws a TypeError
ListRecentFilesNoGuard(r) ==
    /\ SettleAll(r, "ok")
    /\ ListRecentFilesEnd(r, Thrown([name |-> "TypeError",
                                     message |-> "Cannot read properties of undefined",
                                     httpStatus |-> 0]))
    /\ UNCHANGED loc

\* listRecentFiles: if (!data.Contents) return []
ListRecentFilesEmpty(r) ==
    /\ SettleAll(r, "ok")
    /\ ListRecentFilesEnd(r, Returned(<<>>))
    /\ UNCHANGED loc

\* await s3.send(listCmd) settles in listRecentFiles: it throws, returns []
\* for a response without Contents, or filters, sorts, slices and calls
\* getSignedUrl for each item of recent (recent.map runs every callback up to
\* its await before Promise.all waits)
ListRecentFilesListed(r) ==
    /\ pc[r] = "listing"
    /\ req[r].route = "files" /\ req[r].variant \in {"split", "service"}
    /\ \/ \E e \in StorageErrors :
            /\ SettleAll(r, e.name)
            /\ ListRecentFilesEnd(r, Thrown(e))
            /\ UNCHANGED loc
       \/ ListRecentFilesEmpty(r)
       \/ \E contents \in Listings :
            /\ Len(contents) <= ListMaxKeys
            /\ loc' = [loc EXCEPT ![r] = [@ EXCEPT !.contents = contents,
                                        !.recent = Recent(contents, loc[r].limit)]]
            /\ calls' = [calls EXCEPT ![r] =
                            WithSignCalls(@, Signed(contents, loc[r].limit))]
            /\ pc' = [pc EXCEPT ![r] = "signing"]
            /\ UNCHANGED out
    /\ UNCHANGED <<now, req, store>>

\* await s3.send(listCmd) settles in GET /files of server.js
MonoFilesListed(r) ==
    /\ pc[r] = "listing"
    /\ req[r].route = "files" /\ req[r].variant = "mono"
    /\ \/ \E e \in StorageErrors :
            /\ SettleAll(r, e.name)
            /\ Send(r, 500, MonoFilesFailure(e))
            /\ pc' = [pc EXCEPT ![r] = "done"]
            /\ UNCHANGED loc
       \/ \* !data.Contents || data.Contents.length === 0
            /\ SettleAll(r, "ok")
            /\ Send(r, 200, [message |-> "No files found in uploads/",
                             bucket |-> BUCKET])
            /\ pc' = [pc EXCEPT ![r] = "done"]
            /\ UNCHANGED loc
       \/ \E contents \in Listings :
            /\ Len(contents) # 0 /\ Len(contents) <= ListMaxKeys
            /\ loc' = [loc EXCEPT ![r] = [@ EXCEPT !.contents = contents,
                                        !.recent = Recent(contents, loc[r].limit)]]
            /\ calls' = [calls EXCEPT ![r] =
                            WithSignCalls(@, Signed(contents, loc[r].limit))]
            /\ pc' = [pc EXCEPT ![r] = "signing"]
            /\ UNCHANGED out
    /\ UNCHANGED <<now, req, store>>

\* the ways the pending getSignedUrl calls of slot r can settle: each
\* resolves or rejects with an error
SignResults(r) ==
    {result \in [1..Len(calls[r]) -> {"ok"} \cup ErrorNames] :
        \A i \in 1..Len(calls[r]) : calls[r][i].result # "pending" => result[i] = "ok"}

\* the errors Promise.all can reject with: that of any call that rejects
Rejections(result) ==
    {ErrorNamed(result[i]) : i \in {j \in DOMAIN result : result[j] # "ok"}}

\* await Promise.all(...) settles in listRecentFiles: the entries are
\* returned, or the first rejection is thrown
ListRecentFilesSigned(r) ==
    /\ pc[r] = "signing"
    /\ req[r].route = "files" /\ req[r].variant \in {"split", "service"}
    /\ \E result \in SignResults(r) :
        /\ calls' = [calls EXCEPT ![r] = Settled(@, result)]
        /\ IF \A i \in DOMAIN result : result[i] = "ok"
           THEN ListRecentFilesEnd(r, Returned(FileEntries(loc[r].recent)))
           ELSE \E e \in Rejections(result) : ListRecentFilesEnd(r, Thrown(e))
    /\ UNCHANGED <<now, req, loc, store>>

\* await Promise.all(...) settles in GET /files of server.js
MonoFilesSigned(r) ==
    /\ pc[r] = "signing"
    /\ req[r].route = "files" /\ req[r].variant = "mono"
    /\ \E result \in SignResults(r) :
        /\ calls' = [calls EXCEPT ![r] = Settled(@, result)]
        /\ IF \A i \in DOMAIN result : result[i] = "ok"
           THEN Send(r, 200, MonoFilesBody(FileEntries(loc[r].recent)))
           ELSE \E e \in Rejections(result) : Send(r, 500, MonoFilesFailure(e))
    /\ pc' = [pc EXCEPT ![r] = "done"]
    /\ UNCHANGED <<now, req, loc, store>>

----------------------------------------------------------------------------
(* GET /debug/s3 and debugS3Connectivity *)

\* new HeadBucketCommand({Bucket})
HeadCall == [op |-> "HeadBucket", Bucket |-> BUCKET, result |-> "pending"]

\* GET /debug/s3 arrives at server.js ("mono"), or debugS3Connectivity is
\* called ("service")
DebugArrive(r) ==
    /\ pc[r] = "idle"
    /\ \E v \in {"mono", "service"} :
        req' = [req EXCEPT ![r] = [NoReq EXCEPT !.route = "debug", !.variant = v]]
    /\ pc' = [pc EXCEPT ![r] = "handler"]
    /\ UNCHANGED <<now, loc, calls, out, store>>

\* both variants up to the first await: result.steps is empty, HeadBucket is sent
DebugStart(r) ==
    /\ pc[r] = "handler"
    /\ req[r].route = "debug"
    /\ loc' = [loc EXCEPT ![r] = [@ EXCEPT !.steps = <<>>]]
    /\ Invoke(r, HeadCall)
    /\ pc' = [pc EXCEPT ![r] = "head"]
    /\ UNCHANGED <<now, req, out, store>>

\* the record pushed for a call that failed; server.js adds the HTTP status
FailedStep(variant, name, e) ==
    IF variant = "mono"
    THEN [step |-> name, ok |-> FALSE, code |-> e.name, message |-> e.message,
          httpStatus |-> e.httpStatus]
    ELSE [step |-> name, ok |-> FALSE, code |-> e.name, message |-> e.message]

\* the record pushed for the bucket check that succeeded
HeadStep == [step |-> "HeadBucket", ok |-> TRUE, httpStatus |-> 200]

\* the record pushed for the listing that succeeded; server.js adds the HTTP status
ListedStep(variant, contents) ==
    LET keys == [i \in 1..Len(contents) |-> contents[i].Key]
    IN  IF variant = "mono"
        THEN [step |-> "ListObjectsV2", ok |-> TRUE, httpStatus |-> 200,
              count |-> Len(contents), keys |-> keys]
        ELSE [step |-> "ListObjectsV2", ok |-> TRUE,
              count |-> Len(contents), keys |-> keys]

\* a plausible slip: one try block around both calls, so that a failed bucket
\* check ends the function with its record and the listing is never sent
DebugOneTryBlock(r) ==
    /\ pc[r] = "head"
    /\ \/ /\ \E e \in StorageErrors :
                /\ SettleAll(r, e.name)
                /\ loc' = [loc EXCEPT ![r] =
                      [@ EXCEPT !.steps =
                          Append(@, FailedStep(req[r].variant, "HeadBucket", e))]]
          /\ pc' = [pc EXCEPT ![r] = "done"]
          /\ IF req[r].variant = "mono"
             THEN Send(r, 200, [region |-> REGION, bucket |-> BUCKET,
                                steps |-> loc'[r].steps])
             ELSE out' = [out EXCEPT ![r] =
                             Append(@, Returned([region |-> REGION, bucket |-> BUCKET,
                                                 steps |-> loc'[r].steps]))]
       \/ /\ loc' = [loc EXCEPT ![r] = [@ EXCEPT !.steps = Append(@, HeadStep)]]
          /\ calls' = [calls EXCEPT ![r] =
                Append(Settled(@, [i \in 1..Len(@) |-> "ok"]), ListCall(DebugMaxKeys))]
          /\ pc' = [pc EXCEPT ![r] = "list"]
          /\ UNCHANGED out
    /\ UNCHANGED <<now, req, store>>

\* await s3.send(HeadBucketCommand) settles: its record is pushed in the try
\* or in the catch block, then the listing is sent
DebugHeadSettled(r) ==
    /\ pc[r] = "head"
    /\ \E result \in {"ok"} \cup ErrorNames :
        /\ loc' = [loc EXCEPT ![r] =
              [@ EXCEPT !.steps =
                  Append(@, IF result = "ok" THEN HeadStep
                            ELSE FailedStep(req[r].variant, "HeadBucket",
                                            ErrorNamed(result)))]]
        /\ calls' = [calls EXCEPT ![r] =
              Append(Settled(@, [i \in 1..Len(@) |-> result]), ListCall(DebugMaxKeys))]
    /\ pc' = [pc EXCEPT ![r] = "list"]
    /\ UNCHANGED <<now, req, out, store>>

\* the report both variants hand back
Report(steps) == [region |-> REGION, bucket |-> BUCKET, steps |-> steps]

\* await s3.send(ListObjectsV2Command) settles: its record is pushed, then
\* server.js answers res.json(result) and the service returns result
DebugListSettled(r) ==
    /\ pc[r] = "list"
    /\ \E step \in
            {FailedStep(req[r].variant, "ListObjectsV2", e) : e \in StorageErrors}
            \cup {ListedStep(req[r].variant, contents) :
                    contents \in {c \in Listings : Len(c) <= DebugMaxKeys}} :
        /\ loc' = [loc EXCEPT ![r] = [@ EXCEPT !.steps = Append(@, step)]]
        /\ SettleAll(r, IF step.ok THEN "ok" ELSE step.code)
        /\ IF req[r].variant = "mono"
           THEN Send(r, 200, Report(loc'[r].steps))
           ELSE out' = [out EXCEPT ![r] = Append(@, Returned(Report(loc'[r].steps)))]
    /\ pc' = [pc EXCEPT ![r] = "done"]
    /\ UNCHANGED <<now, req, store>>

----------------------------------------------------------------------------
(* The server handling one request *)

Next ==
    \/ Tick
    \/ UploadArrive(1)
    \/ \E r \in Slots :
        \/ MulterSingle(r)
        \/ MonoUploadHandler(r)
        \/ SplitUploadVideo(r)
        \/ UploadSettle(r)
    \/ FilesArrive(1)
    \/ ListRecentFilesCall(1)
    \/ \E r \in Slots :
        \/ MonoFilesStart(r)
        \/ ListRecentFilesStart(r)
        \/ MonoFilesListed(r)
        \/ ListRecentFilesListed(r)
        \/ MonoFilesSigned(r)
        \/ ListRecentFilesSigned(r)
    \/ DebugArrive(1)
    \/ \E r \in Slots :
        \/ DebugStart(r)
        \/ DebugHeadSettled(r)
        \/ DebugListSettled(r)

Spec == Init /\ [][Next]_vars

----------------------------------------------------------------------------
(* The server handling accepted uploads concurrently *)

\* the names of the files uploaded concurrently: two that differ in their
\* whitespace only, one that is the sanitized form of both, one apart
ConcNames == {<<"a", " ", "a">>, <<"a", "\t", "a">>, <<"a", "_", "a">>, <<"a">>}

\* the uploads that pass the middleware and the handler's checks
AcceptedUploads ==
    {q \in UploadRequests :
        /\ q.source = TrustedSource
        /\ q.file.present
        /\ q.file.fieldname = UploadField
        /\ q.file.mimetype = VideoMp4Type
        /\ q.file.size = 0
        /\ q.file.originalname \in ConcNames}

\* an upload arrives on the next free slot of the server that runs the others
ConcUploadArrive(r) ==
    /\ pc[r] = "idle"
    /\ \A s \in Slots : s < r => pc[s] # "idle"
    /\ \E q \in AcceptedUploads :
        /\ \A s \in Slots : pc[s] # "idle" => req[s].variant = q.variant
        /\ req' = [req EXCEPT ![r] = q]
    /\ pc' = [pc EXCEPT ![r] = "multer"]
    /\ UNCHANGED <<now, loc, calls, out, store>>

ConcNext ==
    \/ Tick
    \/ \E r \in Slots :
        \/ ConcUploadArrive(r)
        \/ MulterSingle(r)
        \/ MonoUploadHandler(r)
        \/ SplitUploadVideo(r)
        \/ UploadSettle(r)

ConcSpec == Init /\ [][ConcNext]_vars

----------------------------------------------------------------------------
(* Properties of POST /upload *)

\* the Upload calls made for slot r
UploadCalls(r) ==
    LET IsUpload(c) == c.op = "Upload"
    IN  SelectSeq(calls[r], IsUpload)

\* slot r has answered with exactly one response, of the given status
AnsweredOnce(r, status) ==
    /\ Len(out[r]) = 1
    /\ out[r][1].kind = "response"
    /\ out[r][1].status = status

\* C1: every POST /upload whose X-Client-Source header is absent or differs
\* from 'stickers-recorder' is answered 400 and no storage upload is started
\* for it, whatever file, MIME type or size it carries (stated here for the
\* requests without a file or with the file in the form field 'video').
C1_UntrustedSourceIs400 ==
    \A r \in Slots :
        ( /\ req[r].route = "upload"
          /\ req[r].source # TrustedSource
          /\ req[r].file.present => req[r].file.fieldname = UploadField ) =>
            /\ UploadCalls(r) = <<>>
            /\ pc[r] = "done" => AnsweredOnce(r, 400)

\* The part of C1 the code keeps: no storage upload is ever started for a
\* request without the trusted header, and the handler, when the middleware
\* lets the request through to it, answers 400.
UntrustedSourceNeverUploads ==
    \A r \in Slots :
        (req[r].route = "upload" /\ req[r].source # TrustedSource) =>
            /\ UploadCalls(r) = <<>>
            /\ pc[r] = "done" =>
                  \/ AnsweredOnce(r, 400)
                  \/ /\ AnsweredOnce(r, 500)
                     /\ out[r][1].body.error = "MulterError"
                     /\ \/ req[r].file.size > FileSizeLimit
                        \/ req[r].file.fieldname # UploadField

\* C2: every POST /upload with the trusted header and a file (in the field
\* 'video') whose declared MIME type does not start with 'video/' is answered
\* 400, never 200 or 500, and no storage upload is started, whatever the
\* file's name and size.
C2_NonVideoIs400 ==
    \A r \in Slots :
        ( /\ req[r].route = "upload"
          /\ req[r].source = TrustedSource
          /\ req[r].file.present
          /\ req[r].file.fieldname = UploadField
          /\ ~StartsWith(req[r].file.mimetype, VideoSlash) ) =>
            /\ UploadCalls(r) = <<>>
            /\ pc[r] = "done" => AnsweredOnce(r, 400)

\* the positions of a name that survive the collapse: every character that is
\* not whitespace, and the first character of every run of whitespace
KeptPositions(name) ==
    {i \in 1..Len(name) :
        ~IsWhitespace(name[i]) \/ i = 1 \/ ~IsWhitespace(name[i - 1])}

\* the name with every maximal run of whitespace replaced by one underscore
CollapseRuns(name) ==
    LET kept == KeptPositions(name)
        Nth(j) == CHOOSE i \in kept : Cardinality({x \in kept : x < i}) = j - 1
    IN  [j \in 1..Cardinality(kept) |->
            IF IsWhitespace(name[Nth(j)]) THEN "_" ELSE name[Nth(j)]]

\* the key C7 states for an upload at time t: 'video.mp4' stands in for an
\* empty name
ClaimedKey(t, name) ==
    PREFIX \o NumberToString(t) \o <<"-">>
        \o CollapseRuns(IF name = <<>> THEN VideoMp4 ELSE name)

\* the name that stands in for an empty one: 'video.mp4' in the service;
\* in server.js 'video.mp4' when the content type contains 'mp4' and
\* 'video.webm' otherwise
DefaultName(variant, ct) ==
    IF variant = "mono" /\ ~Includes(ct, Mp4) THEN VideoWebm ELSE VideoMp4

\* the key written and the key returned of an accepted upload on slot r are k
KeyWrittenAndReturned(r, k) ==
    /\ UploadCalls(r)[1].Key = k
    /\ (pc[r] = "done" /\ out[r][1].status = 200) => out[r][1].body.key = k

C9_OneUploadOneResponse ==
    \A r \in Slots :
        req[r].route = "upload" =>
            /\ Len(out[r]) <= 1
            /\ Len(UploadCalls(r)) <= 1
            /\ pc[r] = "uploading" =>
                  /\ Len(UploadCalls(r)) = 1
                  /\ out[r] = <<>>
            /\ (pc[r] = "done" /\ UploadCalls(r) # <<>>) =>
                  LET call == UploadCalls(r)[1]
                      file == req[r].file
                  IN  /\ Len(UploadCalls(r)) = 1
                      /\ call.result # "pending"
                      /\ Failed(call) =>
                            /\ AnsweredOnce(r, 500)
                            /\ out[r][1].body =
                                  [error |-> "Upload failed",
                                   details |-> ErrorNamed(call.result).message]
                      /\ ~Failed(call) =>
                            /\ AnsweredOnce(r, 200)
                            /\ out[r][1].body =
                                  [message |-> "Upload successful",
                                   key |-> call.Key,
                                   url |-> PublicUrl(call.Key),
                                   contentType |-> file.mimetype,
                                   size |-> file.size,
                                   source |-> TrustedSource]

\* C9's case: an upload that passed validation has failed and been answered
C9_WitnessUploadFailed ==
    \E r \in Slots :
        /\ req[r].route = "upload"
        /\ pc[r] = "done"
        /\ Len(UploadCalls(r)) = 1
        /\ Failed(UploadCalls(r)[1])
        /\ AnsweredOnce(r, 500)

----------------------------------------------------------------------------
(* Properties of GET /files and listRecentFiles *)

Min(a, b) == IF a < b THEN a ELSE b

\* slot r has handed back a list of entries: listRecentFiles has returned it
\* to its caller, or the handler has sent it as the files of a 200 response
HasFiles(r) ==
    /\ req[r].route = "files"
    /\ pc[r] = "done"
    /\ Len(out[r]) = 1
    /\ \/ out[r][1].kind = "return"
       \/ /\ out[r][1].kind = "response"
          /\ out[r][1].status = 200
          /\ "files" \in DOMAIN out[r][1].body

\* the entries slot r handed back
FilesOf(r) ==
    IF out[r][1].kind = "return" THEN out[r][1].value ELSE out[r][1].body.files

\* the positions of the listed objects that have a key and a positive size
RealIndexes(contents) ==
    {i \in DOMAIN contents : contents[i].Key # <<>> /\ contents[i].Size > 0}

\* the getSignedUrl calls made for slot r
SignCalls(r) ==
    LET IsSign(c) == c.op = "getSignedUrl"
    IN  SelectSeq(calls[r], IsSign)

\* C3: for every listing and every limit k >= 0 the list handed back has
\* exactly min(k, n) entries, n being the number of listed objects with a key
\* and a positive size; each entry is one of these objects, no object twice;
\* the entries are in descending order of LastModified; and no entry is older
\* than such an object that was left out.
C3_MostRecentFirst ==
    \A r \in Slots :
        HasFiles(r) =>
            LET files == FilesOf(r)
                contents == loc[r].contents
                real == RealIndexes(contents)
            IN  /\ Len(files) = Min(loc[r].limit, Cardinality(real))
                /\ \A j \in DOMAIN files :
                      \E i \in real :
                          /\ files[j].key = contents[i].Key
                          /\ files[j].size = contents[i].Size
                          /\ files[j].lastModified = contents[i].LastModified
                /\ \A j1, j2 \in DOMAIN files :
                      j1 < j2 =>
                          /\ files[j1].lastModified >= files[j2].lastModified
                          /\ files[j1].key # files[j2].key
                /\ \A i \in real :
                      (\A j \in DOMAIN files : files[j].key # contents[i].Key) =>
                          \A j \in DOMAIN files :
                              files[j].lastModified >= contents[i].LastModified

\* C3's case: listRecentFiles(k) has returned k >= 1 entries of a listing that
\* holds more than k real objects and was not in order of LastModified
C3_WitnessTruncated ==
    \E r \in Slots :
        /\ HasFiles(r)
        /\ req[r].variant = "service"
        /\ loc[r].limit >= 1
        /\ Len(FilesOf(r)) = loc[r].limit
        /\ Cardinality(RealIndexes(loc[r].contents)) > loc[r].limit
        /\ \E i1, i2 \in RealIndexes(loc[r].contents) :
              i1 < i2 /\ loc[r].contents[i1].LastModified < loc[r].contents[i2].LastModified

\* C4: no entry handed back by listRecentFiles or GET /files has size 0 or
\* lacks a key.
C4_NoEmptyOrKeylessEntry ==
    \A r \in Slots :
        HasFiles(r) =>
            \A j \in DOMAIN FilesOf(r) :
                /\ FilesOf(r)[j].size > 0
                /\ FilesOf(r)[j].key # <<>>

\* C4's case: entries were handed back, fewer than the limit, of a listing
\* whose most recent object has a key and size 0
C4_WitnessNewestIsEmpty ==
    \E r \in Slots :
        /\ HasFiles(r)
        /\ Len(FilesOf(r)) >= 1
        /\ Len(FilesOf(r)) < loc[r].limit
        /\ \E i \in DOMAIN loc[r].contents :
              /\ loc[r].contents[i].Size = 0
              /\ loc[r].contents[i].Key # <<>>
              /\ \A i2 \in DOMAIN loc[r].contents \ {i} :
                    loc[r].contents[i2].LastModified < loc[r].contents[i].LastModified

\* C5: when the listing call succeeds and lists no object, listRecentFiles
\* returns the empty list and GET /files answers 200; GET /files answers 500,
\* and listRecentFiles throws, only when the listing call or a signing call
\* has failed.
C5_EmptyListingIsSuccess ==
    \A r \in Slots :
        req[r].route = "files" =>
            /\ ( /\ pc[r] = "done"
                 /\ calls[r][1].result = "ok"
                 /\ loc[r].contents = <<>> ) =>
                    /\ Len(out[r]) = 1
                    /\ req[r].variant = "service" => out[r][1] = Returned(<<>>)
                    /\ req[r].variant = "split" =>
                          /\ AnsweredOnce(r, 200)
                          /\ out[r][1].body = [count |-> 0, files |-> <<>>]
                    /\ req[r].variant = "mono" => AnsweredOnce(r, 200)
            /\ \A j \in DOMAIN out[r] :
                  ( \/ out[r][j].kind = "throw"
                    \/ (out[r][j].kind = "response" /\ out[r][j].status = 500) ) =>
                        \E i \in DOMAIN calls[r] : Failed(calls[r][i])

\* C5's case: GET /files of the router has been answered after a listing
\* that succeeded and listed nothing
C5_WitnessEmptyBucket ==
    \E r \in Slots :
        /\ req[r].route = "files"
        /\ req[r].variant = "split"
        /\ pc[r] = "done"
        /\ Len(calls[r]) = 1
        /\ calls[r][1].result = "ok"
        /\ loc[r].contents = <<>>
        /\ AnsweredOnce(r, 200)

\* C10: getSignedUrl is called once for each entry handed back and for no
\* other listed object: the signing calls are as many as min(limit, n), at
\* most limit; each signs the key of a listed object with a key and positive
\* size, no key twice; they sign the truncated list in its order; and when
\* entries are handed back, the signed keys are the keys of the entries.
C10_SignsOnlyReturned ==
    \A r \in Slots :
        req[r].route = "files" =>
            LET signs == SignCalls(r)
                contents == loc[r].contents
                real == RealIndexes(contents)
            IN  /\ Len(signs) = Min(loc[r].limit, Cardinality(real))
                /\ \A j \in DOMAIN signs :
                      \E i \in real : signs[j].Key = contents[i].Key
                /\ \A j1, j2 \in DOMAIN signs :
                      j1 # j2 => signs[j1].Key # signs[j2].Key
                /\ Len(signs) = Len(loc[r].recent)
                /\ \A j \in DOMAIN signs : signs[j].Key = loc[r].recent[j].Key
                /\ HasFiles(r) =>
                      /\ Len(signs) = Len(FilesOf(r))
                      /\ \A j \in DOMAIN signs :
                            /\ signs[j].Key = FilesOf(r)[j].key
                            /\ signs[j].result = "ok"

\* C10's case: entries were handed back by GET /files or listRecentFiles for
\* a listing that held an object filtered out and a real object cut off by
\* the limit, after as many signing calls as entries
C10_WitnessCutOffUnsigned ==
    \E r \in Slots :
        /\ HasFiles(r)
        /\ Len(FilesOf(r)) >= 1
        /\ Len(SignCalls(r)) = Len(FilesOf(r))
        /\ \E i \in DOMAIN loc[r].contents : i \notin RealIndexes(loc[r].contents)
        /\ \E i \in RealIndexes(loc[r].contents) :
              \A j \in DOMAIN SignCalls(r) :
                  SignCalls(r)[j].Key # loc[r].contents[i].Key

----------------------------------------------------------------------------
(* Properties of the connectivity check *)

\* the report slot r handed back
ReportOf(r) ==
    IF out[r][1].kind = "return" THEN out[r][1].value ELSE out[r][1].body

\* C6: whatever the outcomes of HeadBucket and ListObjectsV2, the check never
\* throws and never gets stuck; the listing is sent after the bucket check
\* has settled, failed or not; and the report handed back holds exactly two
\* steps, HeadBucket then ListObjectsV2, each with the ok flag of its own call.
C6_DebugReportsBothSteps ==
    \A r \in Slots :
        req[r].route = "debug" =>
            /\ \A j \in DOMAIN out[r] : out[r][j].kind # "throw"
            /\ pc[r] \in {"handler", "head", "list"} =>
                  /\ out[r] = <<>>
                  /\ ENABLED (DebugStart(r) \/ DebugHeadSettled(r) \/ DebugListSettled(r))
            /\ pc[r] \in {"list", "done"} =>
                  /\ Len(calls[r]) = 2
                  /\ calls[r][1].op = "HeadBucket"
                  /\ calls[r][1].result # "pending"
                  /\ calls[r][2].op = "ListObjectsV2"
            /\ pc[r] = "done" =>
                  /\ Len(out[r]) = 1
                  /\ req[r].variant = "mono" => AnsweredOnce(r, 200)
                  /\ req[r].variant = "service" => out[r][1].kind = "return"
                  /\ LET steps == ReportOf(r).steps
                     IN  /\ Len(steps) = 2
                         /\ steps[1].step = "HeadBucket"
                         /\ steps[1].ok = (calls[r][1].result = "ok")
                         /\ steps[2].step = "ListObjectsV2"
                         /\ steps[2].ok = (calls[r][2].result = "ok")

\* C6's case: a report was handed back after the bucket check failed and the
\* listing succeeded
C6_WitnessHeadFailedListOk ==
    \E r \in Slots :
        /\ req[r].route = "debug"
        /\ pc[r] = "done"
        /\ Failed(calls[r][1])
        /\ calls[r][2].result = "ok"
        /\ ReportOf(r).steps[1].ok = FALSE
        /\ ReportOf(r).steps[2].ok = TRUE

\* the other three combinations of outcomes are reached as well
DebugBothFailed ==
    \E r \in Slots :
        req[r].route = "debug" /\ pc[r] = "done"
            /\ Failed(calls[r][1]) /\ Failed(calls[r][2])

DebugBothOk ==
    \E r \in Slots :
        req[r].route = "debug" /\ pc[r] = "done"
            /\ ~Failed(calls[r][1]) /\ ~Failed(calls[r][2])

DebugHeadOkListFailed ==
    \E r \in Slots :
        req[r].route = "debug" /\ pc[r] = "done"
            /\ ~Failed(calls[r][1]) /\ Failed(calls[r][2])

----------------------------------------------------------------------------
(* Properties of concurrent uploads *)

\* the name the key of the upload on slot r is made from
UsedName(r) ==
    IF req[r].file.originalname = <<>>
    THEN DefaultName(req[r].variant, req[r].file.mimetype)
    ELSE req[r].file.originalname

\* slot r runs an upload that passed validation
Uploads(r) == req[r].route = "upload" /\ UploadCalls(r) # <<>>

\* C8 as stated: no two distinct uploads write the same storage key.
C8_KeysUniquePerUpload ==
    \A r1, r2 \in Slots :
        (r1 # r2 /\ Uploads(r1) /\ Uploads(r2)) =>
            UploadCalls(r1)[1].Key # UploadCalls(r2)[1].Key

\* C8 as amended: two distinct uploads write the same storage key exactly
\* when they read the same millisecond of the clock and their names are equal
\* once whitespace runs are collapsed; an object in the bucket is under the
\* key of the upload that wrote it, and the object of a completed upload is
\* replaced only by an upload of the same millisecond and collapsed name.
C8_KeysCollideOnlyOnSameMsAndName ==
    /\ \A r1, r2 \in Slots :
          (r1 # r2 /\ Uploads(r1) /\ Uploads(r2)) =>
              ( UploadCalls(r1)[1].Key = UploadCalls(r2)[1].Key
                  <=> /\ loc[r1].t = loc[r2].t
                      /\ CollapseRuns(UsedName(r1)) = CollapseRuns(UsedName(r2)) )
    /\ \A i \in DOMAIN store :
          /\ Uploads(store[i].by)
          /\ UploadCalls(store[i].by)[1].Key = store[i].key
          /\ \A j \in DOMAIN store : i # j => store[i].key # store[j].key
    /\ \A r \in Slots :
          (Uploads(r) /\ pc[r] = "done" /\ out[r][1].status = 200) =>
              \E i \in DOMAIN store :
                  /\ store[i].key = UploadCalls(r)[1].Key
                  /\ store[i].by # r =>
                        /\ loc[store[i].by].t = loc[r].t
                        /\ CollapseRuns(UsedName(store[i].by)) = CollapseRuns(UsedName(r))

\* C8's case: two uploads of files with different names have both succeeded
\* under one key, and the bucket holds one object for the two
C8_WitnessSameKeyTwice ==
    \E r1, r2 \in Slots :
        /\ r1 # r2
        /\ Uploads(r1) /\ Uploads(r2)
        /\ pc[r1] = "done" /\ pc[r2] = "done"
        /\ out[r1][1].status = 200 /\ out[r2][1].status = 200
        /\ req[r1].file.originalname # req[r2].file.originalname
        /\ out[r1][1].body.key = out[r2][1].body.key
        /\ Len(store) = 1

====
